---- MODULE Spec2Model ----
(***************************************************************************)
(* Model of osquery/tables/system/linux/pci_devices.cpp: the pci.ids       *)
(* parser (PciDB::PciDB), the three lookups (PciDB::getVendorName,         *)
(* PciDB::getModel, PciDB::getSubsystemInfo) and the table generator       *)
(* genPCIDevices.                                                          *)
(*                                                                         *)
(* A std::string is a sequence of one-character strings, so that size(),   *)
(* at(), substr(), find_first_of(), tolower and boost::split are computed  *)
(* on the characters as the code computes them.  A std::map is a function  *)
(* whose DOMAIN is the set of keys present.                                *)
(***************************************************************************)
EXTENDS Integers, Sequences, FiniteSets, TLC

VARIABLES
  pc,             \* position of the control flow
  file,           \* kPciIdsPath: whether it can be opened, and its lines
  pos,            \* number of lines std::getline has consumed
  db_,            \* PciDB::db_
  cur_vendor,     \* PciDB::PciDB local
  cur_model,      \* PciDB::PciDB local
  sys_devices,    \* the pci entries of the udev device tree
  udev_handle,    \* genPCIDevices local: "unset", "null" or "ok"
  enumerate,      \* genPCIDevices local: "unset", "null" or "ok"
  device_entries, \* genPCIDevices local: list produced by the scan
  entry,          \* genPCIDevices local: number of entries already iterated
  results         \* genPCIDevices local: QueryData

vars == <<pc, file, pos, db_, cur_vendor, cur_model, sys_devices, udev_handle,
          enumerate, device_entries, entry, results>>

(***************************************************************************)
(* Bounds of the model.                                                    *)
(***************************************************************************)
MaxLines == 4

MaxDevices == 2

(***************************************************************************)
(* std::string and std::map primitives.                                    *)
(***************************************************************************)
EmptyString == << >>

EmptyMap == [k \in {} |-> k]

\* m[k] = v for a std::map: inserts the key or overwrites its value.
MapSet(m, k, v) == [x \in (DOMAIN m) \cup {k} |-> IF x = k THEN v ELSE m[x]]

Min(a, b) == IF a < b THEN a ELSE b

\* std::string::substr(p, n); defined for p <= size(), see OutOfRange.
substr(s, p, n) == SubSeq(s, p + 1, Min(p + n, Len(s)))

\* std::string::substr(p): to the end of the string.
substrFrom(s, p) == SubSeq(s, p + 1, Len(s))

\* std::string::substr throws std::out_of_range when p > size().
OutOfRange(s, p) == p > Len(s)

HexDigits == {"0", "1", "2", "3", "4", "5", "6", "7", "8", "9",
              "a", "b", "c", "d", "e", "f"}

npos == -1

\* line.find_first_of("0123456789abcdef"): zero-based offset, or npos.
find_first_of(s) ==
  IF \E i \in 1..Len(s) : s[i] \in HexDigits
    THEN (CHOOSE i \in 1..Len(s) :
            /\ s[i] \in HexDigits
            /\ \A j \in 1..(i - 1) : s[j] \notin HexDigits) - 1
    ELSE npos

(***************************************************************************)
(* PciVendor and PciModel, default constructed.                            *)
(***************************************************************************)
PciVendor == [id |-> EmptyString, name |-> EmptyString, models |-> EmptyMap]

PciModel == [id |-> EmptyString, desc |-> EmptyString, subsystemInfo |-> EmptyMap]

(***************************************************************************)
(* One iteration of the while loop of PciDB::PciDB on a line that getline  *)
(* has delivered.  st = [db, cur_vendor, cur_model]; the result adds       *)
(* status: "reading" (the loop goes on), "returned" (the constructor       *)
(* returns at the ffff vendor) or "out_of_range" (substr throws and the    *)
(* exception leaves the constructor).                                      *)
(***************************************************************************)
Skipped(line) == Len(line) < 7 \/ line[1] = "\n" \/ line[1] = "#"

\* VendorCase without the return at the ffff vendor: ffff is registered like
\* any vendor and the loop goes on.
VendorCaseNoStop(st, line) ==
  LET v == substr(line, 0, 4) IN
  [db |-> MapSet(st.db, v, [id |-> v, name |-> substrFrom(line, 6),
                            models |-> EmptyMap]),
   cur_vendor |-> v, cur_model |-> st.cur_model, status |-> "reading"]

VendorCase(st, line) ==
  LET v == substr(line, 0, 4) IN
  IF v = <<"f", "f", "f", "f">>
    THEN [db |-> st.db, cur_vendor |-> v, cur_model |-> st.cur_model,
          status |-> "returned"]
    ELSE IF OutOfRange(line, 6)
      THEN [db |-> st.db, cur_vendor |-> v, cur_model |-> st.cur_model,
            status |-> "out_of_range"]
      ELSE [db |-> MapSet(st.db, v,
                          [id |-> v, name |-> substrFrom(line, 6),
                           models |-> EmptyMap]),
            cur_vendor |-> v, cur_model |-> st.cur_model,
            status |-> "reading"]

\* ModelCase with the description taken from offset 6, as for a vendor name.
ModelCaseDescFrom6(st, line) ==
  IF st.cur_vendor \in DOMAIN st.db /\ Len(line) > 7
    THEN LET m == substr(line, 1, 4)
             vendor == st.db[st.cur_vendor]
         IN [db |-> MapSet(st.db, st.cur_vendor,
                           [vendor EXCEPT !.models =
                              MapSet(@, m, [id |-> m,
                                            desc |-> substrFrom(line, 6),
                                            subsystemInfo |-> EmptyMap])]),
             cur_vendor |-> st.cur_vendor, cur_model |-> m,
             status |-> "reading"]
    ELSE [db |-> st.db, cur_vendor |-> st.cur_vendor,
          cur_model |-> st.cur_model, status |-> "reading"]

ModelCase(st, line) ==
  IF st.cur_vendor \in DOMAIN st.db /\ Len(line) > 7
    THEN LET m == substr(line, 1, 4)
             vendor == st.db[st.cur_vendor]
         IN IF OutOfRange(line, 7)
              THEN [db |-> st.db, cur_vendor |-> st.cur_vendor, cur_model |-> m,
                    status |-> "out_of_range"]
              ELSE [db |-> MapSet(st.db, st.cur_vendor,
                                  [vendor EXCEPT !.models =
                                     MapSet(@, m,
                                            [id |-> m,
                                             desc |-> substrFrom(line, 7),
                                             subsystemInfo |-> EmptyMap])]),
                    cur_vendor |-> st.cur_vendor, cur_model |-> m,
                    status |-> "reading"]
    ELSE [db |-> st.db, cur_vendor |-> st.cur_vendor,
          cur_model |-> st.cur_model, status |-> "reading"]

\* SubsystemCase without the check that cur_model is registered under the
\* current vendor: operator[] then inserts a default PciModel for it.
SubsystemCaseNoModelCheck(st, line) ==
  IF st.cur_vendor \in DOMAIN st.db /\ Len(line) > 13
    THEN LET vendor == st.db[st.cur_vendor]
             model == IF st.cur_model \in DOMAIN vendor.models
                        THEN vendor.models[st.cur_model]
                        ELSE PciModel
         IN [db |-> MapSet(st.db, st.cur_vendor,
                           [vendor EXCEPT !.models =
                              MapSet(@, st.cur_model,
                                     [model EXCEPT !.subsystemInfo =
                                        MapSet(@, substr(line, 2, 9),
                                               substrFrom(line, 13))])]),
             cur_vendor |-> st.cur_vendor, cur_model |-> st.cur_model,
             status |-> "reading"]
    ELSE [db |-> st.db, cur_vendor |-> st.cur_vendor,
          cur_model |-> st.cur_model, status |-> "reading"]

\* The object under construction is destroyed when substr(13) throws, so
\* whether subsystemInfo[key] was inserted before the throw is not observable.
SubsystemCase(st, line) ==
  IF /\ st.cur_vendor \in DOMAIN st.db
     /\ st.cur_model \in DOMAIN st.db[st.cur_vendor].models
     /\ Len(line) > 11
    THEN LET vendor == st.db[st.cur_vendor]
             model == vendor.models[st.cur_model]
         IN IF OutOfRange(line, 13)
              THEN [db |-> st.db, cur_vendor |-> st.cur_vendor,
                    cur_model |-> st.cur_model, status |-> "out_of_range"]
              ELSE [db |-> MapSet(st.db, st.cur_vendor,
                                  [vendor EXCEPT !.models =
                                     MapSet(@, st.cur_model,
                                            [model EXCEPT !.subsystemInfo =
                                               MapSet(@, substr(line, 2, 9),
                                                      substrFrom(line, 13))])]),
                    cur_vendor |-> st.cur_vendor, cur_model |-> st.cur_model,
                    status |-> "reading"]
    ELSE [db |-> st.db, cur_vendor |-> st.cur_vendor,
          cur_model |-> st.cur_model, status |-> "reading"]

ParseLine(st, line) ==
  IF Skipped(line)
    THEN [db |-> st.db, cur_vendor |-> st.cur_vendor,
          cur_model |-> st.cur_model, status |-> "reading"]
    ELSE CASE find_first_of(line) = 0 -> VendorCase(st, line)
           [] find_first_of(line) = 1 -> ModelCase(st, line)
           [] find_first_of(line) = 2 -> SubsystemCase(st, line)
           [] OTHER -> [db |-> st.db, cur_vendor |-> st.cur_vendor,
                        cur_model |-> st.cur_model, status |-> "reading"]

\* The whole constructor on a stream of lines: the loop above, run until the
\* stream ends, the constructor returns or an exception leaves it.
RECURSIVE ParseFrom(_, _, _)
ParseFrom(st, lines, i) ==
  IF i > Len(lines) \/ st.status # "reading"
    THEN st
    ELSE ParseFrom(ParseLine([db |-> st.db, cur_vendor |-> st.cur_vendor,
                              cur_model |-> st.cur_model], lines[i]),
                   lines, i + 1)

PciDB(lines) ==
  ParseFrom([db |-> EmptyMap, cur_vendor |-> EmptyString,
             cur_model |-> EmptyString, status |-> "reading"], lines, 1)

(***************************************************************************)
(* Contents of pci.ids.  Each line is one of the shapes the parser tells   *)
(* apart: vendor, model and subsystem lines of the lengths around the      *)
(* parser's thresholds (7, 11, 13), a comment, and a line whose first hex  *)
(* digit is at offset 3.                                                   *)
(***************************************************************************)
VendorALine == <<"a", "a", "a", "a", " ", " ", "V">>

VendorBLine == <<"b", "b", "b", "b", " ", " ", "W">>

VendorFLine == <<"f", "f", "f", "f", " ", " ", "X">>

Model1Line == <<"\t", "1", "1", "1", "1", " ", " ", "M">>

Model2Line == <<"\t", "2", "2", "2", "2", " ", " ", "N">>

Model2ShortLine == <<"\t", "2", "2", "2", "2", " ", " ">>

SubsystemLine ==
  <<"\t", "\t", "1", "1", "1", "1", " ", "2", "2", "2", "2", " ", " ", "S">>

Subsystem12Line ==
  <<"\t", "\t", "1", "1", "1", "1", " ", "2", "2", "2", "2", " ">>

Subsystem11Line ==
  <<"\t", "\t", "1", "1", "1", "1", " ", "2", "2", "2", "2">>

CommentLine == <<"#", " ", "c", "l", "a", "s", "s">>

UnknownLine == <<"\t", "\t", "\t", "1", "1", "1", "1">>

Lines == {VendorALine, VendorBLine, VendorFLine, Model1Line, Model2Line,
          Model2ShortLine, SubsystemLine, Subsystem12Line, Subsystem11Line,
          CommentLine, UnknownLine}

RECURSIVE SeqsUpTo(_, _)
SeqsUpTo(S, n) ==
  IF n = 0
    THEN {<< >>}
    ELSE LET shorter == SeqsUpTo(S, n - 1)
         IN shorter \cup {Append(q, x) : q \in shorter, x \in S}

\* kPciIdsPath is absent or unreadable: std::ifstream::fail() is true.
NoFile == [readable |-> FALSE, lines |-> << >>]

Readable(lines) == [readable |-> TRUE, lines |-> lines]

AllFiles == SeqsUpTo(Lines, MaxLines)

(***************************************************************************)
(* PciDB::PciDB as steps: one loop iteration per action.                   *)
(***************************************************************************)
ReadLine ==
  /\ pc = "parsing"
  /\ pos < Len(file.lines)
  /\ LET st == ParseLine([db |-> db_, cur_vendor |-> cur_vendor,
                          cur_model |-> cur_model], file.lines[pos + 1])
     IN /\ db_' = st.db
        /\ cur_vendor' = st.cur_vendor
        /\ cur_model' = st.cur_model
        /\ pc' = CASE st.status = "reading" -> "parsing"
                   [] st.status = "returned" -> "constructed"
                   [] OTHER -> "threw"
  /\ pos' = pos + 1
  /\ UNCHANGED <<file, sys_devices, udev_handle, enumerate, device_entries,
                 entry, results>>

\* std::getline fails at the end of the stream: the constructor returns.
EndOfInput ==
  /\ pc = "parsing"
  /\ pos = Len(file.lines)
  /\ pc' = "constructed"
  /\ UNCHANGED <<file, pos, db_, cur_vendor, cur_model, sys_devices,
                 udev_handle, enumerate, device_entries, entry, results>>

\* The constructor called on a stream holding any lines.
InitParse ==
  /\ pc = "parsing"
  /\ file \in {Readable(lines) : lines \in AllFiles}
  /\ pos = 0
  /\ db_ = EmptyMap
  /\ cur_vendor = EmptyString
  /\ cur_model = EmptyString
  /\ sys_devices = << >>
  /\ udev_handle = "ok"
  /\ enumerate = "ok"
  /\ device_entries = << >>
  /\ entry = 0
  /\ results = << >>

NextParse == ReadLine \/ EndOfInput

SpecParse == InitParse /\ [][NextParse]_vars

(***************************************************************************)
(* The lookups.  Each returns the Status (ok), the value of its output     *)
(* parameter after the call (out) and db_ after the call (db): a           *)
(* std::map's operator[] inserts a default-constructed value for a key     *)
(* that is absent, find() does not.                                        *)
(***************************************************************************)
getVendorName(db, vendor_id, vendor) ==
  IF vendor_id \notin DOMAIN db
    THEN [ok |-> FALSE, out |-> vendor, db |-> db]
    ELSE [ok |-> TRUE, out |-> db[vendor_id].name, db |-> db]

getModel(db, vendor_id, model_id, model) ==
  IF vendor_id \notin DOMAIN db \/ model_id \notin DOMAIN db[vendor_id].models
    THEN [ok |-> FALSE, out |-> model, db |-> db]
    ELSE [ok |-> TRUE, out |-> db[vendor_id].models[model_id].desc, db |-> db]

getSubsystemInfo(db, vendor_id, model_id, subsystem_vendor_id, subsystem_device_id, subsystem) ==
  LET subsystem_id == subsystem_vendor_id \o <<" ">> \o subsystem_device_id
      \* db_[vendor_id]
      db1 == IF vendor_id \in DOMAIN db THEN db
             ELSE MapSet(db, vendor_id, PciVendor)
      \* db_[vendor_id].models[model_id]
      db2 == IF model_id \in DOMAIN db1[vendor_id].models THEN db1
             ELSE MapSet(db1, vendor_id,
                         [db1[vendor_id] EXCEPT !.models =
                            MapSet(@, model_id, PciModel)])
      info == db2[vendor_id].models[model_id].subsystemInfo
  IN IF subsystem_id \notin DOMAIN info
       THEN [ok |-> FALSE, out |-> subsystem, db |-> db2]
       ELSE [ok |-> TRUE, out |-> info[subsystem_id], db |-> db2]

(***************************************************************************)
(* String helpers of genPCIDevices.                                        *)
(***************************************************************************)
UpperCase == <<"A", "B", "C", "D", "E", "F", "G", "H", "I", "J", "K", "L", "M",
               "N", "O", "P", "Q", "R", "S", "T", "U", "V", "W", "X", "Y", "Z">>

LowerCase == <<"a", "b", "c", "d", "e", "f", "g", "h", "i", "j", "k", "l", "m",
               "n", "o", "p", "q", "r", "s", "t", "u", "v", "w", "x", "y", "z">>

\* std::transform(..., std::tolower)
tolower(s) ==
  [i \in 1..Len(s) |->
     IF \E j \in 1..Len(UpperCase) : UpperCase[j] = s[i]
       THEN LowerCase[CHOOSE j \in 1..Len(UpperCase) : UpperCase[j] = s[i]]
       ELSE s[i]]

\* boost::split(ids, s, boost::is_any_of(":")): token compression is off, so
\* n separators give n + 1 tokens, empty ones included.
RECURSIVE split(_)
split(s) ==
  IF \E i \in 1..Len(s) : s[i] = ":"
    THEN LET i == CHOOSE k \in 1..Len(s) :
                    s[k] = ":" /\ \A j \in 1..(k - 1) : s[j] # ":"
         IN <<SubSeq(s, 1, i - 1)>> \o split(SubSeq(s, i + 1, Len(s)))
    ELSE <<s>>

kPCIKeySlot == "PCI_SLOT_NAME"

kPCIKeyClass == "ID_PCI_CLASS_FROM_DATABASE"

kPCIKeyVendor == "ID_VENDOR_FROM_DATABASE"

kPCIKeyModel == "ID_MODEL_FROM_DATABASE"

kPCIKeyID == "PCI_ID"

kPCIKeyDriver == "DRIVER"

kPCISubsysID == "PCI_SUBSYS_ID"

\* UdevEventPublisher::getValue: the property's value, empty when absent.
getValue(device, property) ==
  IF property \in DOMAIN device THEN device[property] ELSE EmptyString

\* r[key] = value on a Row (a std::map of strings).
RowSet(r, key, value) == MapSet(r, key, value)

\* if (r[key].size() == 0) r[key] = "0": reading r[key] inserts the key.
DefaultToZero(r, key) ==
  IF key \in DOMAIN r /\ Len(r[key]) # 0 THEN r ELSE RowSet(r, key, <<"0">>)

(***************************************************************************)
(* The body of the udev_list_entry_foreach loop of genPCIDevices for a     *)
(* device that was materialized: the Row pushed onto results and db_ after *)
(* the lookups.                                                            *)
(***************************************************************************)
SubsystemPart(db, device, ids, r, content) ==
  LET subsystem_ids == split(tolower(getValue(device, kPCISubsysID)))
  IN IF Len(subsystem_ids) = 2
       THEN LET r1 == RowSet(RowSet(r, "subsystem_vendor_id", subsystem_ids[1]),
                             "subsystem_model_id", subsystem_ids[2])
                sv == getVendorName(db, subsystem_ids[1], content)
                r2 == IF sv.ok THEN RowSet(r1, "subsystem_vendor", sv.out)
                      ELSE r1
                si == getSubsystemInfo(sv.db, ids[1], ids[2], subsystem_ids[1],
                                       subsystem_ids[2], sv.out)
                r3 == IF si.ok THEN RowSet(r2, "subsystem_model", si.out)
                      ELSE r2
            IN [row |-> r3, db |-> si.db]
       ELSE [row |-> r, db |-> db]

IdsPart(db, device, r) ==
  LET ids == split(tolower(getValue(device, kPCIKeyID)))
  IN IF Len(ids) = 2
       THEN LET r1 == RowSet(RowSet(r, "vendor_id", ids[1]), "model_id", ids[2])
                vn == getVendorName(db, ids[1], EmptyString)
                r2 == IF vn.ok THEN RowSet(r1, "vendor", vn.out) ELSE r1
                gm == getModel(vn.db, ids[1], ids[2], vn.out)
                r3 == IF gm.ok THEN RowSet(r2, "model", gm.out) ELSE r2
            IN SubsystemPart(gm.db, device, ids, r3, gm.out)
       ELSE [row |-> r, db |-> db]

RawRow(device) ==
  [k \in {"pci_slot", "pci_class", "driver", "vendor", "model"} |->
     CASE k = "pci_slot" -> getValue(device, kPCIKeySlot)
       [] k = "pci_class" -> getValue(device, kPCIKeyClass)
       [] k = "driver" -> getValue(device, kPCIKeyDriver)
       [] k = "vendor" -> getValue(device, kPCIKeyVendor)
       [] k = "model" -> getValue(device, kPCIKeyModel)]

GenRow(db, device) ==
  LET res == IdsPart(db, device, RawRow(device))
  IN [row |-> DefaultToZero(DefaultToZero(res.row, "vendor_id"), "model_id"),
      db |-> res.db]

(***************************************************************************)
(* The udev device tree: the properties of each pci entry, and whether     *)
(* udev_device_new_from_syspath materializes it.                           *)
(***************************************************************************)
Props(slot, id, subsys) ==
  LET base == [k \in {kPCIKeySlot, kPCIKeyClass, kPCIKeyDriver, kPCIKeyVendor,
                      kPCIKeyModel, kPCIKeyID} |->
                 CASE k = kPCIKeySlot -> slot
                   [] k = kPCIKeyClass -> <<"c">>
                   [] k = kPCIKeyDriver -> <<"d">>
                   [] k = kPCIKeyVendor -> <<"r">>
                   [] k = kPCIKeyModel -> <<"q">>
                   [] k = kPCIKeyID -> id]
  IN IF subsys = EmptyString THEN base ELSE MapSet(base, kPCISubsysID, subsys)

\* "AAAA:1111" with subsystem "1111:2222"
KnownDevice ==
  [materializes |-> TRUE,
   props |-> Props(<<"1">>, <<"A", "A", "A", "A", ":", "1", "1", "1", "1">>,
                   <<"1", "1", "1", "1", ":", "2", "2", "2", "2">>)]

\* "cccc:3333" with subsystem "aaaa:9999"
UnknownDevice ==
  [materializes |-> TRUE,
   props |-> Props(<<"2">>, <<"c", "c", "c", "c", ":", "3", "3", "3", "3">>,
                   <<"a", "a", "a", "a", ":", "9", "9", "9", "9">>)]

\* a device with no property at all
BareDevice == [materializes |-> TRUE, props |-> EmptyMap]

\* "badid"
BadIdDevice ==
  [materializes |-> TRUE,
   props |-> Props(<<"4">>, <<"b", "a", "d", "i", "d">>, EmptyString)]

\* "aaaa:"
NoModelIdDevice ==
  [materializes |-> TRUE,
   props |-> Props(<<"5">>, <<"a", "a", "a", "a", ":">>, EmptyString)]

\* ":1111"
NoVendorIdDevice ==
  [materializes |-> TRUE,
   props |-> Props(<<"6">>, <<":", "1", "1", "1", "1">>, EmptyString)]

\* "a:b:c"
ThreePartIdDevice ==
  [materializes |-> TRUE,
   props |-> Props(<<"7">>, <<"a", ":", "b", ":", "c">>, EmptyString)]

\* an entry for which udev_device_new_from_syspath returns nullptr
GoneDevice == [materializes |-> FALSE, props |-> EmptyMap]

DeviceEntries == {KnownDevice, UnknownDevice, BareDevice, BadIdDevice,
                  NoModelIdDevice, NoVendorIdDevice, ThreePartIdDevice,
                  GoneDevice}

\* pci.ids as found on the machine: complete, empty, ending in a subsystem
\* line of 12 characters, cut at the ffff vendor; or no file at all.
DbFiles == {<<VendorALine, Model1Line, SubsystemLine>>,
            << >>,
            <<VendorALine, Model1Line, Subsystem12Line>>,
            <<VendorBLine, VendorFLine, VendorALine>>}

(***************************************************************************)
(* genPCIDevices.                                                          *)
(***************************************************************************)
\* udev_new(), which may return nullptr
UdevNew ==
  /\ pc = "udev_new"
  /\ \E ok \in BOOLEAN :
       /\ udev_handle' = IF ok THEN "ok" ELSE "null"
       /\ pc' = IF ok THEN "enumerate_new" ELSE "returned"
  /\ UNCHANGED <<file, pos, db_, cur_vendor, cur_model, sys_devices,
                 enumerate, device_entries, entry, results>>

\* udev_enumerate_new(), which may return nullptr
EnumerateNew ==
  /\ pc = "enumerate_new"
  /\ \E ok \in BOOLEAN :
       /\ enumerate' = IF ok THEN "ok" ELSE "null"
       /\ pc' = IF ok THEN "open" ELSE "returned"
  /\ UNCHANGED <<file, pos, db_, cur_vendor, cur_model, sys_devices,
                 udev_handle, device_entries, entry, results>>

\* OpenFile that goes on with an empty database when the file cannot be
\* opened.
OpenFileDegrades ==
  /\ pc = "open"
  /\ pc' = IF ~file.readable THEN "constructed" ELSE "parsing"
  /\ UNCHANGED <<file, pos, db_, cur_vendor, cur_model, sys_devices,
                 udev_handle, enumerate, device_entries, entry, results>>

\* std::ifstream raw(kPciIdsPath); if (raw.fail()) return results;
OpenFile ==
  /\ pc = "open"
  /\ pc' = IF ~file.readable THEN "returned" ELSE "parsing"
  /\ UNCHANGED <<file, pos, db_, cur_vendor, cur_model, sys_devices,
                 udev_handle, enumerate, device_entries, entry, results>>

\* udev_enumerate_scan_devices and udev_enumerate_get_list_entry
ScanDevices ==
  /\ pc = "constructed"
  /\ device_entries' = sys_devices
  /\ entry' = 0
  /\ pc' = "loop"
  /\ UNCHANGED <<file, pos, db_, cur_vendor, cur_model, sys_devices,
                 udev_handle, enumerate, results>>

\* ProcessEntry that skips an entry it cannot materialize and goes on with
\* the next one.
ProcessEntrySkipsGone ==
  /\ pc = "loop"
  /\ entry < Len(device_entries)
  /\ LET e == device_entries[entry + 1]
     IN IF ~e.materializes
          THEN UNCHANGED <<db_, results>>
          ELSE LET g == GenRow(db_, e.props)
               IN /\ results' = Append(results, g.row)
                  /\ db_' = g.db
  /\ entry' = entry + 1
  /\ pc' = "loop"
  /\ UNCHANGED <<file, pos, cur_vendor, cur_model, sys_devices, udev_handle,
                 enumerate, device_entries>>

\* one iteration of udev_list_entry_foreach
ProcessEntry ==
  /\ pc = "loop"
  /\ entry < Len(device_entries)
  /\ LET e == device_entries[entry + 1]
     IN IF ~e.materializes
          THEN /\ pc' = "returned"
               /\ UNCHANGED <<db_, entry, results>>
          ELSE LET g == GenRow(db_, e.props)
               IN /\ results' = Append(results, g.row)
                  /\ db_' = g.db
                  /\ entry' = entry + 1
                  /\ pc' = "loop"
  /\ UNCHANGED <<file, pos, cur_vendor, cur_model, sys_devices, udev_handle,
                 enumerate, device_entries>>

\* the list is exhausted: return results
LoopEnd ==
  /\ pc = "loop"
  /\ entry = Len(device_entries)
  /\ pc' = "returned"
  /\ UNCHANGED <<file, pos, db_, cur_vendor, cur_model, sys_devices,
                 udev_handle, enumerate, device_entries, entry, results>>

Init ==
  /\ pc = "udev_new"
  /\ file \in {Readable(lines) : lines \in DbFiles} \cup {NoFile}
  /\ pos = 0
  /\ db_ = EmptyMap
  /\ cur_vendor = EmptyString
  /\ cur_model = EmptyString
  /\ sys_devices \in SeqsUpTo(DeviceEntries, MaxDevices)
  /\ udev_handle = "unset"
  /\ enumerate = "unset"
  /\ device_entries = << >>
  /\ entry = 0
  /\ results = << >>

Next ==
  \/ UdevNew
  \/ EnumerateNew
  \/ OpenFile
  \/ ReadLine
  \/ EndOfInput
  \/ ScanDevices
  \/ ProcessEntry
  \/ LoopEnd

Spec == Init /\ [][Next]_vars

(***************************************************************************)
(* The shapes of pci.ids lines, read off the characters.                   *)
(***************************************************************************)
ffff == <<"f", "f", "f", "f">>

IsHex4(l, from) == \A i \in from..(from + 3) : l[i] \in HexDigits

Classified(l) == Len(l) >= 7 /\ l[1] # "#" /\ l[1] # "\n"

\* a line the parser classifies as vendor, model, subsystem line
VendorShaped(l) == Classified(l) /\ l[1] \in HexDigits

ModelShaped(l) == Classified(l) /\ l[1] \notin HexDigits /\ l[2] \in HexDigits

SubsystemShaped(l) ==
  Classified(l) /\ l[1] \notin HexDigits /\ l[2] \notin HexDigits
                /\ l[3] \in HexDigits

FfffLine(l) == Len(l) >= 7 /\ SubSeq(l, 1, 4) = ffff

\* index of the last line before k with the given shape, 0 when there is none
LastVendorBefore(f, k) ==
  LET S == {i \in 1..(k - 1) : VendorShaped(f[i])}
  IN IF S = {} THEN 0 ELSE CHOOSE i \in S : \A j \in S : j <= i

LastModelBefore(f, k) ==
  LET S == {i \in 1..(k - 1) : ModelShaped(f[i])}
  IN IF S = {} THEN 0 ELSE CHOOSE i \in S : \A j \in S : j <= i

\* The lines of the database file format:
\*   <4-hex-vendor-id>  <vendor-name>
\*   \t<4-hex-model-id>  <model-description>
\*   \t\t<9-char-subsystem-key>  <subsystem-description>
WFVendorLine(l) ==
  Len(l) >= 7 /\ IsHex4(l, 1) /\ l[5] = " " /\ l[6] = " "

WFModelLine(l) ==
  Len(l) >= 8 /\ l[1] = "\t" /\ IsHex4(l, 2) /\ l[6] = " " /\ l[7] = " "

WFSubsystemLine(l) ==
  /\ Len(l) >= 14
  /\ l[1] = "\t" /\ l[2] = "\t"
  /\ IsHex4(l, 3) /\ l[7] = " " /\ IsHex4(l, 8)
  /\ l[12] = " " /\ l[13] = " "

WFCommentLine(l) == Len(l) >= 1 /\ l[1] = "#"

\* A well-formed database: only lines of the format, every vendor ID
\* registered once and not ffff, every model line under a vendor line and
\* its ID registered once under that vendor, every subsystem line under a
\* model line of the current vendor.
WellFormed(f) ==
  /\ \A i \in 1..Len(f) :
       \/ WFCommentLine(f[i])
       \/ WFVendorLine(f[i]) /\ SubSeq(f[i], 1, 4) # ffff
       \/ WFModelLine(f[i]) /\ LastVendorBefore(f, i) # 0
       \/ /\ WFSubsystemLine(f[i])
          /\ LastVendorBefore(f, i) # 0
          /\ LastModelBefore(f, i) > LastVendorBefore(f, i)
  /\ \A i, j \in 1..Len(f) :
       (i < j /\ WFVendorLine(f[i]) /\ WFVendorLine(f[j]))
         => SubSeq(f[i], 1, 4) # SubSeq(f[j], 1, 4)
  /\ \A i, j \in 1..Len(f) :
       (/\ i < j /\ WFModelLine(f[i]) /\ WFModelLine(f[j])
        /\ LastVendorBefore(f, i) = LastVendorBefore(f, j))
         => SubSeq(f[i], 2, 5) # SubSeq(f[j], 2, 5)

(***************************************************************************)
(* The parser: C3, C6, C7, C8, C10, under SpecParse.                       *)
(***************************************************************************)

\* C3: the parser never fails hard: whatever the lines, the construction of
\* PciDB completes normally; no line makes it raise an error.
C3_ParserNeverFailsHard == pc # "threw"

\* C6: after parsing a well-formed database, every model line is reachable:
\* getModel on the ID of the vendor line it stands under and on its own ID
\* succeeds and returns the text of the line from offset 7 to its end.
C6_ModelsReachable ==
  (pc = "constructed" /\ WellFormed(file.lines)) =>
    \A i \in 1..Len(file.lines) :
      WFModelLine(file.lines[i]) =>
        LET l == file.lines[i]
            v == file.lines[LastVendorBefore(file.lines, i)]
            g == getModel(db_, SubSeq(v, 1, 4), SubSeq(l, 2, 5), EmptyString)
        IN g.ok /\ g.out = SubSeq(l, 8, Len(l))

\* two model lines of a well-formed database have been parsed
C6_Witness ==
  /\ pc = "constructed"
  /\ WellFormed(file.lines)
  /\ Cardinality({i \in 1..Len(file.lines) : WFModelLine(file.lines[i])}) >= 2

\* C7: once a vendor line with ID ffff is read, parsing has stopped there:
\* the database is the one built from the lines before it, it holds no
\* vendor ffff, and no later line is consumed.
C7_StopsAtFfff ==
  \A k \in 1..pos :
    FfffLine(file.lines[k]) =>
      /\ pc = "constructed"
      /\ pos = k
      /\ db_ = PciDB(SubSeq(file.lines, 1, k - 1)).db
      /\ ffff \notin DOMAIN db_

\* parsing stopped at an ffff line that has a vendor line after it
C7_Witness ==
  /\ pc = "constructed"
  /\ pos >= 2
  /\ pos < Len(file.lines)
  /\ FfffLine(file.lines[pos])
  /\ db_ # EmptyMap
  /\ VendorShaped(file.lines[pos + 1])
  /\ ~FfffLine(file.lines[pos + 1])

\* C8: an indented line whose parent cursor is not set is discarded and
\* changes neither the database nor the cursors: a model line when no vendor
\* is registered (so, before any vendor line, the database stays empty), a
\* subsystem line when the current vendor has no model under cur_model.
C8_OrphanLinesDiscarded ==
  /\ []((\A k \in 1..pos : ~VendorShaped(file.lines[k])) => db_ = EmptyMap)
  /\ [][(/\ pc = "parsing"
         /\ pos < Len(file.lines)
         /\ LET line == file.lines[pos + 1]
            IN \/ ModelShaped(line) /\ cur_vendor \notin DOMAIN db_
               \/ /\ SubsystemShaped(line)
                  /\ \/ cur_vendor \notin DOMAIN db_
                     \/ cur_model \notin DOMAIN db_[cur_vendor].models)
          => /\ db_' = db_
             /\ cur_vendor' = cur_vendor
             /\ cur_model' = cur_model
             /\ pc' = "parsing"]_vars

\* a subsystem line was just discarded under a vendor that does not have the
\* model the cursor still names
C8_Witness ==
  /\ pc = "parsing"
  /\ pos >= 1
  /\ SubsystemShaped(file.lines[pos])
  /\ cur_vendor \in DOMAIN db_
  /\ cur_model # EmptyString
  /\ cur_model \notin DOMAIN db_[cur_vendor].models

\* C10: every subsystem entry is stored under its declared parent: it comes
\* from a subsystem line whose nearest preceding vendor line has the
\* vendor's ID and whose nearest preceding model line lies after that
\* vendor line and has the model's ID.
C10_SubsystemUnderDeclaredParent ==
  \A v \in DOMAIN db_ :
    \A m \in DOMAIN db_[v].models :
      \A key \in DOMAIN db_[v].models[m].subsystemInfo :
        \E k \in 1..pos :
          LET vi == LastVendorBefore(file.lines, k)
              mi == LastModelBefore(file.lines, k)
          IN /\ SubsystemShaped(file.lines[k])
             /\ SubSeq(file.lines[k], 3, 11) = key
             /\ vi # 0
             /\ mi > vi
             /\ SubSeq(file.lines[vi], 1, 4) = v
             /\ SubSeq(file.lines[mi], 2, 5) = m

(***************************************************************************)
(* genPCIDevices: C1, C2, C4, C5, C9, under Spec.                          *)
(***************************************************************************)
ParsedDb == PciDB(file.lines).db

\* C1: lookups never mutate the database: while the devices are processed,
\* db_ is the structure the parser built.
C1_LookupsNeverMutate == (pc = "loop") => db_ = ParsedDb

\* C2: a device whose vendor ID is not in the parsed database keeps its raw
\* vendor property in the row; one whose model is not keeps its raw model.
C2_MissKeepsRaw ==
  \A i \in 1..Len(results) :
    LET device == device_entries[i].props
        ids == split(tolower(getValue(device, kPCIKeyID)))
    IN Len(ids) = 2 =>
         /\ ids[1] \notin DOMAIN ParsedDb
              => /\ ~getVendorName(ParsedDb, ids[1], EmptyString).ok
                 /\ results[i]["vendor"] = getValue(device, kPCIKeyVendor)
         /\ ~getModel(ParsedDb, ids[1], ids[2], EmptyString).ok
              => results[i]["model"] = getValue(device, kPCIKeyModel)

FileOpenFailed ==
  pc = "returned" /\ udev_handle = "ok" /\ enumerate = "ok" /\ ~file.readable

\* C4 as claimed: when the database file cannot be opened, every device of
\* the system still yields a row, carrying its raw vendor and model properties.
C4_MissingFileStillYieldsRows ==
  FileOpenFailed =>
    /\ Len(results) = Len(sys_devices)
    /\ \A i \in 1..Len(results) :
         /\ results[i]["vendor"] = getValue(sys_devices[i].props, kPCIKeyVendor)
         /\ results[i]["model"] = getValue(sys_devices[i].props, kPCIKeyModel)

\* C4, amended: when the database file cannot be opened, genPCIDevices
\* returns without an error and without any row: no database is built and
\* no device is enumerated.
C4_MissingFileReturnsNoRows ==
  ~file.readable =>
    /\ pc \in {"udev_new", "enumerate_new", "open", "returned"}
    /\ results = << >>
    /\ db_ = EmptyMap
    /\ device_entries = << >>

\* the file could not be opened on a system that has pci devices
C4_Witness ==
  /\ FileOpenFailed
  /\ Len(sys_devices) > 0
  /\ \A i \in 1..Len(sys_devices) : sys_devices[i].materializes

TwoNonEmptyParts(s) ==
  LET parts == split(s)
  IN Len(parts) = 2 /\ parts[1] # EmptyString /\ parts[2] # EmptyString

\* C5: a device whose combined ID does not split on ':' into exactly two
\* non-empty parts gets vendor_id "0" and model_id "0", and keeps its raw
\* vendor and model properties.
C5_BadIdDefaultsToZero ==
  \A i \in 1..Len(results) :
    LET device == device_entries[i].props
    IN ~TwoNonEmptyParts(getValue(device, kPCIKeyID)) =>
         /\ results[i]["vendor_id"] = <<"0">>
         /\ results[i]["model_id"] = <<"0">>
         /\ results[i]["vendor"] = getValue(device, kPCIKeyVendor)
         /\ results[i]["model"] = getValue(device, kPCIKeyModel)

\* number of entries before the first that cannot be materialized
Materializable(entries) ==
  LET S == {i \in 1..Len(entries) : ~entries[i].materializes}
  IN IF S = {} THEN Len(entries)
     ELSE (CHOOSE i \in S : \A j \in S : i <= j) - 1

====
